---- MODULE Spec2Model ----
(***************************************************************************)
(* Model of the plugin installation pipeline of bshengine.cli:             *)
(*   PluginManager.manage  (src/src/packaging/plugin/core/manager.ts)      *)
(*   BasePluginInstaller / PluginInstaller  (src/unnamed/part_004)         *)
(* The discovery, parsing and dependency-check stages are not part of the  *)
(* sources at hand; they are modelled from their description.              *)
(***************************************************************************)
EXTENDS Integers, Sequences, FiniteSets, TLC

(* ------------------------------ bounds -------------------------------- *)
NumNodes == 3
MaxFiles == 2
MaxElems == 3
MaxFaults == 1

(* --------------------------- program constants ------------------------ *)
BSH_ENTITIES == "BshEntities"
BSH_PLUGINS == "BshPlugins"
ReadFailedStatus == 500

Nodes == 1..NumNodes
\* a dependency name that is no key of the content map
MissingName == 0
\* no node: find() returned undefined; the metadata record's synthetic path
NoNode == 0

TargetNames == <<"Products", "Orders", "Customers", "Invoices", "Payments", "Stores">>

VARIABLES
    \* the plugin on disk and the engine (inputs, fixed during a run)
    deps,        \* node -> set of dependency names (node ids, or MissingName)
    base,        \* the node whose manifest target is BshEntities, or NoNode
    content,     \* node -> sequence of file payloads
    descriptor,  \* the engine's BshEntities descriptor: "pluginBased", "plain", "none"
    pluginScoped, \* the other targets whose descriptor in the engine is plugin-scoped
    placeholders, \* node -> the placeholder keys in the values of its files
    configVars,  \* the keys of the plugin-level variables
    manifestVars, \* node -> the keys of its manifest-level variables
    outage,      \* the error the engine's client gives a create call that fails
    optionsOk,   \* whether the install command was given a host and an API key
    faults,      \* how many more failures the environment may produce
    \* PluginManager.manage
    pc,          \* position of the run
    stages,      \* the stages started so far, in order
    error,       \* what manage() threw to its caller ([kind |-> "none"] if nothing)
    \* BasePluginInstaller.install
    installed,   \* node -> the installed flag of its PluginContent
    mainIdx,     \* index of the loop over contents in install()
    stack,       \* the installContent activations: <<[node, di]>>, innermost last
    ctx,         \* who called insertRecord: "base", "content", "meta", "none"
    node,        \* the node whose files are being installed
    fileIdx,     \* index of the loop over the node's files
    json,        \* the payload readJson returned for the current file
    left,        \* the placeholders readJson left verbatim in it
    resolved,    \* the level each placeholder of it got its value from
    elemIdx,     \* index of the loop over an array payload in insertRecord
    bshEntity,   \* what getBshEntity() returned for the current insertRecord call
    inflight,    \* the remote call awaited: "none", "lookup", "create"
    \* what the environment observes
    calls,       \* the create-record calls, in the order issued
    lookups,     \* number of findById calls issued
    reads,       \* the files readJson was called for, in order
    marks,       \* the nodes whose installed flag was assigned true, in order
    log,         \* warnings and errors logged, in order
    \* the install command
    exitCode,    \* the code the process exited with, "none" while it runs
    \* the scaffolding utilities, each a program of its own
    setter,      \* setValueAtPath: the root object, the locator, what was applied
    scaffold,    \* generatePlugin: the target and plugin directories, its steps
    manifestGen, \* generate manifest: the arguments, the manifest directory
    docker       \* docker setup: the three files on disk, the loop, the log

inputVars == <<deps, base, content, descriptor, pluginScoped, placeholders,
              configVars, manifestVars, outage, optionsOk>>
manageVars == <<pc, stages, error>>
loopVars == <<installed, mainIdx, stack>>
fileVars == <<ctx, node, fileIdx, json, left, resolved, elemIdx, bshEntity>>
obsVars == <<calls, lookups, reads, marks, log>>
installVars == <<inputVars, faults, manageVars, loopVars, fileVars, inflight, obsVars, exitCode>>
toolVars == <<setter, scaffold, manifestGen, docker>>
vars == <<installVars, toolVars>>

(* ------------------------------ payloads ------------------------------ *)
\* JSON values by kind; an array carries the kinds of its elements.
ElemKinds == {"obj", "null", "arr", "num", "str", "bool"}
NonObjKinds == ElemKinds \ {"obj"}

ObjectPayload == [kind |-> "obj", elems |-> <<>>]
NullPayload == [kind |-> "null", elems |-> <<>>]
NumberPayload == [kind |-> "num", elems |-> <<>>]
ArrayPayload(es) == [kind |-> "arr", elems |-> es]

\* JavaScript's typeof
TypeOf(k) ==
    CASE k = "num" -> "number"
      [] k = "str" -> "string"
      [] k = "bool" -> "boolean"
      [] OTHER -> "object"

IsArrayKind(k) == k = "arr"

\* the test without item !== null
IsRecordItem_NullPasses(k) == TypeOf(k) = "object" /\ ~IsArrayKind(k)

\* typeof item === 'object' && item !== null && !Array.isArray(item)
IsRecordItem(k) == TypeOf(k) = "object" /\ k # "null" /\ ~IsArrayKind(k)

\* arrays of up to MaxElems elements, objects mixed with one kind of non-object
ArrayShapes ==
    UNION { { ArrayPayload([i \in 1..n |-> IF b[i] THEN "obj" ELSE k]) :
                b \in [1..n -> BOOLEAN], k \in NonObjKinds } : n \in 0..MaxElems }

Shapes == ArrayShapes \cup {ObjectPayload, NullPayload, NumberPayload}

(* ------------------------- the plugin wrapper ------------------------- *)
\* manifest.target of a node
TargetOf(n) == IF n = base THEN BSH_ENTITIES ELSE TargetNames[n]

\* PluginContent.isEmpty(): the node has no content files
IsEmpty(n) == Len(content[n]) = 0

\* the set S of numbers as an ascending sequence
RECURSIVE SortedSeq(_)
SortedSeq(S) ==
    IF S = {} THEN <<>>
    ELSE LET m == CHOOSE x \in S : \A y \in S : x <= y
         IN <<m>> \o SortedSeq(S \ {m})

\* PluginContent.dependencies: the resolved dependency nodes, in manifest order
DepSeq(d, n) == SortedSeq(d[n] \cap Nodes)

\* PluginWrapper.contentList(): the nodes in the content map's iteration order
ContentList == [i \in 1..NumNodes |-> i]

Range(s) == { s[i] : i \in DOMAIN s }

IndexOf(s, x) == CHOOSE i \in DOMAIN s : s[i] = x

\* the dependencies of n, direct and transitive
RECURSIVE ReachIn(_, _, _)
ReachIn(d, S, k) ==
    IF k = 0 THEN S
    ELSE ReachIn(d, S \cup UNION { d[m] \cap Nodes : m \in S }, k - 1)

TransDeps(d, n) == ReachIn(d, d[n] \cap Nodes, NumNodes)

(* ----------------------- the dependency checker ----------------------- *)
\* a dependency name that resolves to no node: <<referencer, name>>
MissingRefs(d) == { <<n, m>> \in Nodes \X {MissingName} : m \in d[n] }

\* depth-first traversal from the last node of path, whose nodes are in
\* progress; the first cycle met, as the ordered list of its nodes, or <<>>
RECURSIVE CycleFrom(_, _, _)
CycleFrom(d, path, i) ==
    LET ds == DepSeq(d, path[Len(path)])
    IN  IF i > Len(ds) THEN <<>>
        ELSE IF ds[i] \in Range(path)
             THEN SubSeq(path, IndexOf(path, ds[i]), Len(path))
             ELSE LET c == CycleFrom(d, Append(path, ds[i]), 1)
                  IN IF c # <<>> THEN c ELSE CycleFrom(d, path, i + 1)

RECURSIVE FirstCycle(_, _)
FirstCycle(d, n) ==
    IF n > NumNodes THEN <<>>
    ELSE LET c == CycleFrom(d, <<n>>, 1)
         IN IF c # <<>> THEN c ELSE FirstCycle(d, n + 1)

Acyclic(d) == \A n \in Nodes : n \notin TransDeps(d, n)

(* ------------------------------- errors ------------------------------- *)
NoError == [kind |-> "none", status |-> 0, names |-> <<>>, isError |-> TRUE]
Thrown(k, st, ns) == [kind |-> k, status |-> st, names |-> ns, isError |-> TRUE]

(* ------------------------------- errors ------------------------------- *)
\* what a failed remote call hands to onError, as far as formatError looks at
\* it: whether it is an Error, the code of its cause, and what its string
\* form contains
Errors ==
    [isError : BOOLEAN, code : {"ECONNREFUSED", "none"},
     text : {"ECONNREFUSED", "fetch failed", "other"}]

\* what fetch throws when nothing listens at the engine's address
ConnectionRefused == [isError |-> TRUE, code |-> "ECONNREFUSED", text |-> "fetch failed"]

\* formatError: which message it returns
FormatError(e) ==
    IF e.isError
    THEN IF e.code = "ECONNREFUSED"
         THEN "Connection refused to address:port. Please ensure the server is running"
         ELSE IF e.text \in {"ECONNREFUSED", "fetch failed"}
              THEN "Connection failed. Please ensure the server is running. Original error"
              ELSE "error.message"
    ELSE "String(error)"

(* ------------------------------- inputs ------------------------------- *)
\* the placeholder keys of the content files
Keys == {"a", "b", "c"}

\* content files without placeholders, and no variables
NoPlaceholders ==
    /\ placeholders = [n \in Nodes |-> {}]
    /\ configVars = {}
    /\ manifestVars = [n \in Nodes |-> {}]

NoDeps == [n \in Nodes |-> {}]

\* every node depends on the next one
ChainDeps == [n \in Nodes |-> IF n < NumNodes THEN {n + 1} ELSE {}]

\* every dependency graph without self-reference, cyclic ones included; any
\* node may be the BshEntities node; the first node may have no files
InitGraphs ==
    /\ deps \in { d \in [Nodes -> SUBSET Nodes] : \A n \in Nodes : n \notin d[n] }
    /\ base \in Nodes \cup {NoNode}
    /\ content \in { [n \in Nodes |-> IF n = e THEN <<>> ELSE <<ObjectPayload>>] : e \in {NoNode, 1} }
    /\ descriptor = "pluginBased"
    /\ pluginScoped = Range(TargetNames)
    /\ NoPlaceholders
    /\ outage = ConnectionRefused
    /\ optionsOk = TRUE
    /\ faults = 0

\* MaxFiles object files per node, an environment that may fail
InitFaults ==
    /\ deps \in {NoDeps, ChainDeps}
    /\ base \in {NoNode, 1, 2}
    /\ content = [n \in Nodes |-> [i \in 1..MaxFiles |-> ObjectPayload]]
    /\ descriptor \in {"pluginBased", "plain", "none"}
    /\ pluginScoped = IF descriptor = "pluginBased" THEN Range(TargetNames) ELSE {}
    /\ NoPlaceholders
    /\ outage = ConnectionRefused
    /\ optionsOk = TRUE
    /\ faults = MaxFaults

\* one file of any shape in the first node
InitShapes ==
    /\ deps = NoDeps
    /\ base \in {NoNode, 1}
    /\ content \in { [n \in Nodes |-> IF n = 1 THEN <<p>> ELSE <<ObjectPayload>>] : p \in Shapes }
    /\ descriptor = "pluginBased"
    /\ pluginScoped = Range(TargetNames)
    /\ NoPlaceholders
    /\ outage = ConnectionRefused
    /\ optionsOk = TRUE
    /\ faults = MaxFaults

\* a manifest naming a dependency that no manifest directory provides
InitMissing ==
    /\ deps = [n \in Nodes |-> IF n = 1 THEN {MissingName} ELSE {}]
    /\ base = NoNode
    /\ content = [n \in Nodes |-> <<ObjectPayload>>]
    /\ descriptor = "pluginBased"
    /\ pluginScoped = Range(TargetNames)
    /\ NoPlaceholders
    /\ outage = ConnectionRefused
    /\ optionsOk = TRUE
    /\ faults = 0

\* an engine whose descriptors differ from target to target
InitEngine ==
    /\ deps = NoDeps
    /\ base \in {NoNode, 1}
    /\ content = [n \in Nodes |-> <<ObjectPayload>>]
    /\ descriptor \in {"pluginBased", "plain", "none"}
    /\ pluginScoped \in SUBSET { TargetNames[n] : n \in Nodes }
    /\ NoPlaceholders
    /\ outage = ConnectionRefused
    /\ optionsOk = TRUE
    /\ faults = 0

\* files of the first node with placeholders, some without a variable
InitVariables ==
    /\ deps = NoDeps
    /\ base \in {NoNode, 1}
    /\ content = [n \in Nodes |-> <<ObjectPayload>>]
    /\ descriptor = "pluginBased"
    /\ pluginScoped = Range(TargetNames)
    /\ placeholders \in { [n \in Nodes |-> IF n = 1 THEN ph ELSE {}] : ph \in SUBSET Keys }
    /\ configVars \in {{}, {"a"}}
    /\ manifestVars \in { [n \in Nodes |-> mv] : mv \in {{}, {"b"}, {"a", "b"}} }
    /\ outage = ConnectionRefused
    /\ optionsOk = TRUE
    /\ faults = MaxFaults

\* an engine whose create calls fail in any of the ways a client reports
InitOutage ==
    /\ deps = NoDeps
    /\ base \in {NoNode, 1}
    /\ content = [n \in Nodes |-> <<ObjectPayload>>]
    /\ descriptor = "pluginBased"
    /\ pluginScoped = Range(TargetNames)
    /\ NoPlaceholders
    /\ outage \in Errors
    /\ optionsOk = TRUE
    /\ faults = MaxFaults

\* an install command without --host or without --api-key
InitOptions ==
    /\ deps = NoDeps
    /\ base \in Nodes \cup {NoNode}
    /\ content = [n \in Nodes |-> <<ObjectPayload>>]
    /\ descriptor = "pluginBased"
    /\ pluginScoped = Range(TargetNames)
    /\ NoPlaceholders
    /\ outage = ConnectionRefused
    /\ optionsOk = FALSE
    /\ faults = 0

\* the installer before manage() is called
InstallInit ==
    /\ \/ InitGraphs
       \/ InitFaults
       \/ InitShapes
       \/ InitMissing
       \/ InitEngine
       \/ InitVariables
       \/ InitOutage
       \/ InitOptions
    /\ pc = "discover"
    /\ stages = <<>>
    /\ error = NoError
    /\ installed = [n \in Nodes |-> FALSE]
    /\ mainIdx = 0
    /\ stack = <<>>
    /\ ctx = "none"
    /\ node = NoNode
    /\ fileIdx = 0
    /\ json = NullPayload
    /\ left = {}
    /\ resolved = <<>>
    /\ elemIdx = 0
    /\ bshEntity = "undefined"
    /\ inflight = "none"
    /\ calls = <<>>
    /\ lookups = 0
    /\ reads = <<>>
    /\ marks = <<>>
    /\ log = <<>>
    /\ exitCode = "none"

\* a utility that is not run
Idle == [state |-> "idle"]

Init ==
    /\ InstallInit
    /\ setter = Idle
    /\ scaffold = Idle
    /\ manifestGen = Idle
    /\ docker = Idle

(* ------------------------ PluginManager.manage ------------------------ *)
\* the catch clause of manage(): an Error is rethrown as it is
ManageCatch(e) ==
    IF e.isError THEN e ELSE Thrown("PluginException", ReadFailedStatus, <<>>)

\* manage() without the dependency check
StageAfter_NoCheck(s) ==
    CASE s = "discover" -> "parse"
      [] s = "parse" -> "install"
      [] s = "check" -> "install"
      [] s = "install" -> "done"

\* manage() checking the dependencies after the installation
StageAfter_CheckLast(s) ==
    CASE s = "discover" -> "parse"
      [] s = "parse" -> "install"
      [] s = "install" -> "check"
      [] s = "check" -> "done"

\* the stage manage() runs once stage s has returned
StageAfter(s) ==
    CASE s = "discover" -> "parse"
      [] s = "parse" -> "check"
      [] s = "check" -> "install"
      [] s = "install" -> "done"

\* manage() swallowing what a stage throws and going on
StageThrew_GoesOn(s) ==
    CASE s = "discover" -> "parse"
      [] s = "parse" -> "check"
      [] s = "check" -> "install"
      [] s = "install" -> "done"

\* where manage() goes when stage s throws: nothing after it runs
StageThrew(s) == "failed"

Done(name, result) == [name |-> name, result |-> result]

\* stage s returned
Returned(s, name) ==
    /\ pc' = StageAfter(s)
    /\ stages' = Append(stages, Done(name, "ok"))
    /\ error' = error

\* stage s threw e
Threw(s, name, e) ==
    /\ pc' = StageThrew(s)
    /\ stages' = Append(stages, Done(name, "threw"))
    /\ error' = IF StageThrew(s) = "failed" THEN ManageCatch(e) ELSE error

\* 1. discovery
Discover ==
    /\ pc = "discover"
    /\ optionsOk
    /\ \/ Returned("discover", "discovery")
       \/ Threw("discover", "discovery", Thrown("DiscoveryError", 0, <<>>))
    /\ UNCHANGED <<toolVars, inputVars, exitCode, faults, loopVars, fileVars, inflight, obsVars>>

\* 2. parsing
Parse ==
    /\ pc = "parse"
    /\ \/ Returned("parse", "parsing")
       \/ Threw("parse", "parsing", Thrown("ParseError", 0, <<>>))
    /\ UNCHANGED <<toolVars, inputVars, exitCode, faults, loopVars, fileVars, inflight, obsVars>>

\* PluginDependency.check: what it throws for the content map, or NoError
CheckResult(d) ==
    IF MissingRefs(d) # {}
    THEN LET r == CHOOSE x \in MissingRefs(d) : \A y \in MissingRefs(d) : x[1] <= y[1]
         IN Thrown("DependencyError", 0, <<r[1], r[2]>>)
    ELSE IF FirstCycle(d, 1) # <<>>
         THEN Thrown("DependencyError", 0, FirstCycle(d, 1))
         ELSE NoError

\* 3. dependency check
Check ==
    /\ pc = "check"
    /\ IF CheckResult(deps) = NoError
       THEN Returned("check", "dependency check")
       ELSE Threw("check", "dependency check", CheckResult(deps))
    /\ UNCHANGED <<toolVars, inputVars, exitCode, faults, loopVars, fileVars, inflight, obsVars>>

(* --------------------- BasePluginInstaller.install -------------------- *)
\* a loop over the files that stops after the first
Files_FirstOnly(n) == IF content[n] = <<>> THEN <<>> ELSE <<content[n][1]>>

\* content.files
Files(n) == content[n]

\* install() without its first step
FindBshEntities_Never == NoNode

\* the find without its isEmpty() test
FindBshEntities_AlsoEmpty ==
    LET hits == { i \in 1..NumNodes : TargetOf(ContentList[i]) = BSH_ENTITIES }
    IN IF hits = {} THEN NoNode
       ELSE ContentList[CHOOSE i \in hits : \A j \in hits : i <= j]

\* contents.find(p => !p.isEmpty() && p.manifest.target === BSH_ENTITIES)
FindBshEntities ==
    LET hits == { i \in 1..NumNodes :
                    ~IsEmpty(ContentList[i]) /\ TargetOf(ContentList[i]) = BSH_ENTITIES }
    IN IF hits = {} THEN NoNode
       ELSE ContentList[CHOOSE i \in hits : \A j \in hits : i <= j]

\* install() returned to manage()
InstallReturned ==
    /\ pc' = StageAfter("install")
    /\ stages' = [stages EXCEPT ![Len(stages)] = Done("installation", "ok")]
    /\ error' = error

\* install() threw e to manage()
InstallThrew(e) ==
    /\ pc' = StageThrew("install")
    /\ stages' = [stages EXCEPT ![Len(stages)] = Done("installation", "threw")]
    /\ error' = IF StageThrew("install") = "failed" THEN ManageCatch(e) ELSE error

\* install() is entered and installBshEntities looks for the BshEntities node
InstallStart ==
    /\ pc = "install"
    /\ stages' = Append(stages, Done("installation", "running"))
    /\ error' = error
    /\ IF FindBshEntities = NoNode
       THEN /\ pc' = "main_loop"
            /\ mainIdx' = 1
            /\ UNCHANGED <<ctx, node, fileIdx>>
       ELSE /\ pc' = "base_file"
            /\ ctx' = "base"
            /\ node' = FindBshEntities
            /\ fileIdx' = 1
            /\ UNCHANGED mainIdx
    /\ UNCHANGED <<toolVars, inputVars, exitCode, faults, installed, stack, json, left, resolved, elemIdx, bshEntity,
                   inflight, obsVars>>

File(n, f) == [node |-> n, file |-> f]

LogEntry(level, what, n, f, i) ==
    [level |-> level, what |-> what, node |-> n, file |-> f, idx |-> i]

\* JsonResolver.resolve(value, variables, strict) on a value with the
\* placeholders ph: those with a variable are replaced, the others are left
\* verbatim, or make the resolution fail when strict
Resolve(ph, variables, strict) ==
    [failed |-> strict /\ ph \ variables # {}, left |-> ph \ variables,
     done |-> ph \cap variables]

\* a resolution that fails on any unknown placeholder
Strict_On == TRUE

\* the third argument readJson gives to JsonResolver.resolve
Strict == FALSE

\* the level a placeholder got its value from in two passes of the resolver
Origin(k, first, second) ==
    IF k \in first.done THEN "plugin"
    ELSE IF k \in second.done THEN "manifest" ELSE "verbatim"

\* a readJson that resolves the manifest-level variables first
ReadJson_ManifestFirst(n) ==
    LET first == Resolve(placeholders[n], manifestVars[n], Strict)
        second == Resolve(first.left, configVars, Strict)
    IN [failed |-> first.failed \/ second.failed, left |-> second.left,
        from |-> [k \in placeholders[n] |-> Origin(k, second, first)]]

\* readJson on a file of n: the plugin-level variables are resolved, then the
\* manifest-level ones; a failed resolution is thrown as a read failure
ReadJson(n) ==
    LET first == Resolve(placeholders[n], configVars, Strict)
        second == Resolve(first.left, manifestVars[n], Strict)
    IN [failed |-> first.failed \/ second.failed, left |-> second.left,
        from |-> [k \in placeholders[n] |-> Origin(k, first, second)]]

\* PluginInstaller.readJson threw: the file cannot be read or is not JSON
ReadError == Thrown("InstallError", ReadFailedStatus, <<>>)

\* whether the caller of insertRecord catches what it throws: only the loop
\* of installContent has a try/catch around it
CatchesInsertError(c) == c = "content"

\* the loop of installBshEntities: the next file is read, or the loop ends
BaseFile ==
    /\ pc = "base_file"
    /\ IF fileIdx > Len(Files(node))
       THEN /\ installed' = [installed EXCEPT ![node] = TRUE]
            /\ marks' = Append(marks, node)
            /\ pc' = "main_loop"
            /\ mainIdx' = 1
            /\ ctx' = "none"
            /\ UNCHANGED <<faults, stages, error, json, left, resolved, reads, log>>
       ELSE /\ reads' = Append(reads, File(node, fileIdx))
            /\ \/ /\ ~ReadJson(node).failed
                  /\ json' = Files(node)[fileIdx]
                  /\ left' = ReadJson(node).left
                  /\ resolved' = ReadJson(node).from
                  /\ pc' = "lookup"
                  /\ UNCHANGED <<faults, stages, error, log>>
               \/ /\ ReadJson(node).failed \/ faults > 0
                  /\ faults' = IF ReadJson(node).failed THEN faults ELSE faults - 1
                  /\ InstallThrew(ReadError)
                  /\ UNCHANGED <<json, left, resolved, log>>
            /\ UNCHANGED <<installed, marks, mainIdx, ctx>>
    /\ UNCHANGED <<toolVars, inputVars, exitCode, stack, node, fileIdx, elemIdx, bshEntity, inflight,
                   calls, lookups>>

\* the loop of install() over the first `last` contents: installContent(c),
\* or, after them, installPlugin
MainLoopUpTo(last) ==
    /\ pc = "main_loop"
    /\ IF mainIdx > last
       THEN /\ pc' = "lookup"
            /\ ctx' = "meta"
            /\ node' = NoNode
            /\ fileIdx' = 0
            /\ json' = ObjectPayload
            /\ left' = {}
            /\ resolved' = <<>>
            /\ UNCHANGED stack
       ELSE /\ pc' = "content_deps"
            /\ stack' = <<[node |-> ContentList[mainIdx], di |-> 1]>>
            /\ UNCHANGED <<ctx, node, fileIdx, json, left, resolved>>
    /\ UNCHANGED <<toolVars, inputVars, exitCode, faults, stages, error, installed, mainIdx, elemIdx,
                   bshEntity, inflight, obsVars>>

\* the loop stopping one content short
MainLoop_SkipsLast == MainLoopUpTo(NumNodes - 1)

\* the loop of install() over the contents, then installPlugin
MainLoop == MainLoopUpTo(NumNodes)

Top == stack[Len(stack)]
Pop == SubSeq(stack, 1, Len(stack) - 1)

\* installContent(c) returned: to the dependency loop of its caller, or to
\* the loop of install()
ContentReturned ==
    /\ stack' = Pop
    /\ IF Len(stack) = 1
       THEN pc' = "main_loop" /\ mainIdx' = mainIdx + 1
       ELSE pc' = "content_deps" /\ mainIdx' = mainIdx

\* a content that is taken for not installed whatever its flag says
AlreadyInstalled_Never(c) == FALSE

\* the guards `if (dependency.installed) continue` and
\* `if (content.installed) return` of installContent
AlreadyInstalled(c) == installed[c]

\* installContent: the loop over the dependencies, then the installed check
ContentDeps ==
    /\ pc = "content_deps"
    /\ LET c == Top.node
           ds == DepSeq(deps, c)
       IN IF Top.di <= Len(ds)
          THEN /\ pc' = "content_deps"
               /\ IF AlreadyInstalled(ds[Top.di])
                  THEN stack' = [stack EXCEPT ![Len(stack)].di = @ + 1]
                  ELSE stack' = Append([stack EXCEPT ![Len(stack)].di = @ + 1],
                                       [node |-> ds[Top.di], di |-> 1])
               /\ UNCHANGED <<mainIdx, ctx, node, fileIdx>>
          ELSE IF AlreadyInstalled(c)
               THEN ContentReturned /\ UNCHANGED <<ctx, node, fileIdx>>
               ELSE /\ pc' = "content_file"
                    /\ ctx' = "content"
                    /\ node' = c
                    /\ fileIdx' = 1
                    /\ UNCHANGED <<stack, mainIdx>>
    /\ UNCHANGED <<toolVars, inputVars, exitCode, faults, stages, error, installed, json, left, resolved, elemIdx,
                   bshEntity, inflight, obsVars>>

\* the loop of installContent over the files: the next file is read, or the
\* loop ends and the node is marked installed
ContentFile ==
    /\ pc = "content_file"
    /\ IF fileIdx > Len(Files(node))
       THEN /\ installed' = [installed EXCEPT ![node] = TRUE]
            /\ marks' = Append(marks, node)
            /\ ContentReturned
            /\ ctx' = "none"
            /\ UNCHANGED <<faults, stages, error, fileIdx, json, left, resolved, reads, log>>
       ELSE /\ reads' = Append(reads, File(node, fileIdx))
            /\ \/ /\ ~ReadJson(node).failed
                  /\ json' = Files(node)[fileIdx]
                  /\ left' = ReadJson(node).left
                  /\ resolved' = ReadJson(node).from
                  /\ IF Files(node)[fileIdx].kind = "null"
                     THEN pc' = "content_file" /\ fileIdx' = fileIdx + 1
                     ELSE pc' = "lookup" /\ fileIdx' = fileIdx
                  /\ UNCHANGED <<faults, stages, error, log>>
               \/ /\ ReadJson(node).failed \/ faults > 0
                  /\ faults' = IF ReadJson(node).failed THEN faults ELSE faults - 1
                  /\ InstallThrew(ReadError)
                  /\ UNCHANGED <<fileIdx, json, left, resolved, log>>
            /\ UNCHANGED <<installed, marks, stack, mainIdx, ctx>>
    /\ UNCHANGED <<toolVars, inputVars, exitCode, node, elemIdx, bshEntity, inflight, calls, lookups>>

(* ------------------- getBshEntity and insertRecord -------------------- *)
\* the collection insertRecord is given: BSH_ENTITIES by installBshEntities,
\* manifest.target by installContent, BSH_PLUGINS by installPlugin
TargetEntity(c, n) ==
    CASE c = "base" -> BSH_ENTITIES
      [] c = "meta" -> BSH_PLUGINS
      [] OTHER -> TargetOf(n)

\* getBshEntity() is called: findById is sent to the engine
LookupIssue ==
    /\ pc = "lookup"
    /\ pc' = "lookup_wait"
    /\ inflight' = "lookup"
    /\ lookups' = lookups + 1
    /\ UNCHANGED <<toolVars, inputVars, exitCode, faults, stages, error, loopVars, fileVars, calls,
                   reads, marks, log>>

\* findById answered (a descriptor, or nothing) or threw; insertRecord is
\* called with what getBshEntity made of it
LookupReturn ==
    /\ pc = "lookup_wait"
    /\ \/ /\ bshEntity' = IF descriptor = "none" THEN "undefined" ELSE descriptor
          /\ UNCHANGED <<faults, log>>
       \/ /\ faults > 0
          /\ faults' = faults - 1
          /\ bshEntity' = "undefined"
          /\ log' = Append(log, LogEntry("error", "lookup", node, fileIdx, 0))
    /\ inflight' = "none"
    /\ pc' = "insert"
    /\ elemIdx' = 1
    /\ UNCHANGED <<toolVars, inputVars, exitCode, stages, error, loopVars, ctx, node, fileIdx, json, left, resolved,
                   calls, lookups, reads, marks>>

\* the field also added when no descriptor was found
AddsPluginField_UnlessPlain(target, entity) == target # BSH_PLUGINS /\ entity # "plain"

\* addPluginField: whether the payload gets bshPlugin = config.id
AddsPluginField(target, entity) == target # BSH_PLUGINS /\ entity = "pluginBased"

\* insertRecord returned normally: the loop that called it goes on
InsertReturned ==
    CASE ctx = "base" ->
            /\ pc' = "base_file"
            /\ fileIdx' = fileIdx + 1
            /\ UNCHANGED <<stages, error>>
      [] ctx = "content" ->
            /\ pc' = "content_file"
            /\ fileIdx' = fileIdx + 1
            /\ UNCHANGED <<stages, error>>
      [] ctx = "meta" ->
            /\ InstallReturned
            /\ UNCHANGED fileIdx

\* a caller that answers a failed insertRecord by inserting the file again
InsertThrew_Retries(e, lg) ==
    /\ pc' = "lookup"
    /\ fileIdx' = fileIdx
    /\ log' = lg
    /\ UNCHANGED <<stages, error>>

\* insertRecord threw e: installContent logs it and goes on with the next
\* file; installBshEntities and installPlugin let it through
InsertThrew(e, lg) ==
    IF CatchesInsertError(ctx)
    THEN /\ pc' = "content_file"
         /\ fileIdx' = fileIdx + 1
         /\ log' = Append(lg, LogEntry("warn", "insert", node, fileIdx, 0))
         /\ UNCHANGED <<stages, error>>
    ELSE /\ InstallThrew(e)
         /\ log' = lg
         /\ UNCHANGED fileIdx

\* the payload element insertRecord is at: index 0 is a payload that is one object
AtRecord ==
    \/ json.kind = "arr" /\ elemIdx <= Len(json.elems) /\ IsRecordItem(json.elems[elemIdx])
    \/ json.kind # "arr" /\ TypeOf(json.kind) = "object" /\ json.kind # "null"

AtNonRecord ==
    json.kind = "arr" /\ elemIdx <= Len(json.elems) /\ ~IsRecordItem(json.elems[elemIdx])

Call(t, n, f, i, tagged) ==
    [target |-> t, node |-> n, file |-> f, idx |-> i, bshPlugin |-> tagged,
     left |-> left, from |-> resolved, state |-> "pending", reason |-> "none"]

\* an array loop that sends create for an element and goes on to the next
\* element without awaiting the answer
InsertIssue_NoAwait ==
    /\ pc = "insert"
    /\ AtRecord
    /\ calls' = Append(calls,
                  Call(TargetEntity(ctx, node), node, fileIdx,
                       IF json.kind = "arr" THEN elemIdx ELSE 0,
                       AddsPluginField(TargetEntity(ctx, node), bshEntity)))
    /\ inflight' = "create"
    /\ IF json.kind = "arr"
       THEN pc' = "insert" /\ elemIdx' = elemIdx + 1
       ELSE pc' = "create_wait" /\ elemIdx' = elemIdx
    /\ UNCHANGED <<toolVars, inputVars, exitCode, faults, stages, error, loopVars, ctx, node, fileIdx,
                   json, left, resolved, bshEntity, lookups, reads, marks, log>>

\* insertEntityRecord: create is sent to the engine for an object
InsertIssue ==
    /\ pc = "insert"
    /\ AtRecord
    /\ calls' = Append(calls,
                  Call(TargetEntity(ctx, node), node, fileIdx,
                       IF json.kind = "arr" THEN elemIdx ELSE 0,
                       AddsPluginField(TargetEntity(ctx, node), bshEntity)))
    /\ inflight' = "create"
    /\ pc' = "create_wait"
    /\ UNCHANGED <<toolVars, inputVars, exitCode, faults, stages, error, loopVars, fileVars, lookups,
                   reads, marks, log>>

\* an array element that is no object: a warning, and the loop goes on
InsertSkip ==
    /\ pc = "insert"
    /\ AtNonRecord
    /\ log' = Append(log, LogEntry("warn", "not an object", node, fileIdx, elemIdx))
    /\ elemIdx' = elemIdx + 1
    /\ UNCHANGED <<toolVars, inputVars, exitCode, faults, manageVars, loopVars, ctx, node, fileIdx, json, left, resolved,
                   bshEntity, inflight, calls, lookups, reads, marks>>

\* nothing (more) to insert: a null or primitive payload, or the end of the array
InsertNothing ==
    /\ pc = "insert"
    /\ ~AtRecord
    /\ ~AtNonRecord
    /\ InsertReturned
    /\ UNCHANGED <<toolVars, inputVars, exitCode, faults, loopVars, ctx, node, json, left, resolved, elemIdx, bshEntity,
                   inflight, obsVars>>

SetLast(s, st) == [s EXCEPT ![Len(s)].state = st]

\* onError: the message logged for the call and given to reject
Rejected(s, e) == [s EXCEPT ![Len(s)].state = "failed", ![Len(s)].reason = FormatError(e)]

\* the Error insertEntityRecord rejects with
CreateError == Thrown("Error", 0, <<>>)

\* the engine answered the create call: onSuccess or onError
CreateReturn ==
    /\ pc = "create_wait"
    /\ inflight' = "none"
    /\ \/ /\ calls' = SetLast(calls, "ok")
          /\ IF json.kind = "arr"
             THEN /\ pc' = "insert"
                  /\ elemIdx' = elemIdx + 1
                  /\ UNCHANGED <<stages, error, fileIdx>>
             ELSE /\ InsertReturned
                  /\ UNCHANGED elemIdx
          /\ UNCHANGED <<faults, log>>
       \/ /\ faults > 0
          /\ faults' = faults - 1
          /\ calls' = Rejected(calls, outage)
          /\ InsertThrew(CreateError,
                         Append(log, LogEntry("error", "create", node, fileIdx,
                                              IF json.kind = "arr" THEN elemIdx ELSE 0)))
          /\ UNCHANGED elemIdx
    /\ UNCHANGED <<toolVars, inputVars, exitCode, loopVars, ctx, node, json, left, resolved, bshEntity, lookups, reads,
                   marks>>

(* -------------------------- the install command ----------------------- *)
\* installPlugin of the api: how it ends when manage() ended at position p.
\* Its catch clause logs whatever was thrown and returns.
ApiInstallPlugin(p) == "returned"

\* the action of the install command: the options are checked, installPlugin
\* is awaited, and the process exits with 0, or with 1 from the catch clause
Exit ==
    /\ exitCode = "none"
    /\ \/ /\ ~optionsOk
          /\ pc = "discover"
          /\ exitCode' = "1"
       \/ /\ optionsOk
          /\ pc \in {"done", "failed"}
          /\ exitCode' = IF ApiInstallPlugin(pc) = "returned" THEN "0" ELSE "1"
    /\ UNCHANGED <<toolVars, inputVars, faults, manageVars, loopVars, fileVars, inflight, obsVars>>

Next ==
    \/ Discover
    \/ Parse
    \/ Check
    \/ InstallStart
    \/ BaseFile
    \/ MainLoop
    \/ ContentDeps
    \/ ContentFile
    \/ LookupIssue
    \/ LookupReturn
    \/ InsertIssue
    \/ InsertSkip
    \/ InsertNothing
    \/ CreateReturn
    \/ Exit

Spec == Init /\ [][Next]_vars

\* the run goes on while a step is enabled: the event loop runs every
\* continuation that is ready, and every remote call that was sent returns
FairSpec == Spec /\ WF_vars(Next)

\* the installer while another program runs: an install command that was
\* never started
InstallIdle ==
    /\ InstallInit
    /\ InitMissing

(* ---------------------------- setValueAtPath -------------------------- *)
MaxDepth == 2
MaxPath == 3
MaxSets == 2

\* JSON values as setValueAtPath meets them, by type
Null == [t |-> "null"]
Undefined == [t |-> "undefined"]
Prim == [t |-> "number"]
NewValue == [t |-> "value"]
\* an object with the properties f; an array with the elements e and the
\* named properties p
Obj(f) == [t |-> "object", f |-> f]
Arr(e, p) == [t |-> "array", e |-> e, p |-> p]
TypeError == [t |-> "TypeError"]
InvalidPath == [t |-> "InvalidPath"]

Digits == <<"0", "1", "2", "3">>

\* !isNaN(parseInt(part, 10)) for a segment that is a name or a number
IsNumeric(part) == part \in Range(Digits)

\* parseInt(part, 10)
ParseInt(part) == IndexOf(Digits, part) - 1

Put(f, k, x) == [y \in DOMAIN f \cup {k} |-> IF y = k THEN x ELSE f[y]]

\* current[part]
Get(cur, part) ==
    CASE cur.t = "object" ->
            IF part \in DOMAIN cur.f THEN cur.f[part] ELSE Undefined
      [] cur.t = "array" ->
            IF IsNumeric(part)
            THEN IF ParseInt(part) < Len(cur.e) THEN cur.e[ParseInt(part) + 1] ELSE Undefined
            ELSE IF part \in DOMAIN cur.p THEN cur.p[part] ELSE Undefined
      [] cur.t \in {"null", "undefined"} -> TypeError
      [] OTHER -> Undefined

\* the elements e with element i (from 0) set to x, the slots a longer array
\* gets being holes
SetElem(e, i, x) ==
    [j \in 1..(IF Len(e) > i THEN Len(e) ELSE i + 1) |->
        IF j = i + 1 THEN x ELSE IF j <= Len(e) THEN e[j] ELSE Undefined]

\* current[part] = x: a property of an object, an element or a named
\* property of an array; a TypeError on a primitive, on null and on undefined
\* (the module is strict code)
Assign(cur, part, x) ==
    IF x.t = "TypeError" THEN TypeError
    ELSE CASE cur.t = "object" -> Obj(Put(cur.f, part, x))
           [] cur.t = "array" ->
                 IF IsNumeric(part)
                 THEN Arr(SetElem(cur.e, ParseInt(part), x), cur.p)
                 ELSE Arr(cur.e, Put(cur.p, part, x))
           [] OTHER -> TypeError

\* an element that is replaced whatever it is
NeedsObject_Always(x) == TRUE

\* if (current[part][nextIndex] === null) current[part][nextIndex] = {}
NeedsObject(x) == x.t = "null"

\* while (current[part].length <= nextIndex) current[part].push(null)
PadTo(e, idx) ==
    IF Len(e) > idx THEN e ELSE e \o [j \in 1..(idx + 1 - Len(e)) |-> Null]

\* the loop of setValueAtPath from the container cur on, and the final
\* assignment; the result is cur as the call leaves it, or the TypeError it
\* throws. Nothing has been changed when it throws: a value is only replaced
\* or created with fresh containers below it.
RECURSIVE SetFrom(_, _, _)
SetFrom(cur, parts, v) ==
    IF cur.t \in {"null", "undefined"} THEN TypeError
    ELSE IF Len(parts) = 1 THEN Assign(cur, parts[1], v)
    ELSE IF IsNumeric(parts[2])
    THEN LET old == Get(cur, parts[1])
             arr == IF old.t = "array" THEN old ELSE Arr(<<>>, <<>>)
             idx == ParseInt(parts[2])
             padded == PadTo(arr.e, idx)
             elems == IF NeedsObject(padded[idx + 1])
                      THEN [padded EXCEPT ![idx + 1] = Obj(<<>>)]
                      ELSE padded
             rest == SubSeq(parts, 3, Len(parts))
             elem == IF rest = <<>>
                     THEN Assign(elems[idx + 1], parts[2], v)
                     ELSE SetFrom(elems[idx + 1], rest, v)
         IN IF elem.t = "TypeError" THEN TypeError
            ELSE Assign(cur, parts[1], Arr([elems EXCEPT ![idx + 1] = elem], arr.p))
    ELSE LET old == Get(cur, parts[1])
             child == IF old.t \in {"undefined", "null"} THEN Obj(<<>>) ELSE old
         IN Assign(cur, parts[1], SetFrom(child, Tail(parts), v))

\* setValueAtPath(obj, path, value) for a path with or without the "$." it
\* must start with
SetValueAtPath(obj, path, v) ==
    IF ~path.sigil THEN InvalidPath ELSE SetFrom(obj, path.parts, v)

\* the properties k and s of an object, either of which may be absent
Fields(k, s, x, y) ==
    [q \in (IF x.t = "undefined" THEN {} ELSE {k}) \cup (IF y.t = "undefined" THEN {} ELSE {s})
        |-> IF q = k THEN x ELSE y]

Leaves == {Null, Prim}

\* arrays of up to two elements, one of them a leaf
Arrays(S) ==
    {Arr(<<>>, <<>>)} \cup { Arr(<<x>>, <<>>) : x \in S }
        \cup { Arr(<<x, y>>, <<>>) : x \in Leaves, y \in S }
        \cup { Arr(<<x, y>>, <<>>) : x \in S, y \in Leaves }

\* the values of depth d and less
RECURSIVE Values(_)
Values(d) ==
    IF d = 0 THEN Leaves
    ELSE Leaves
            \cup { Obj(Fields("k", "s", x, y)) :
                      x \in Values(d - 1) \cup {Undefined}, y \in {Undefined, Prim} }
            \cup Arrays(Values(d - 1))

\* the root objects: a property a of any value and a primitive property b
Roots ==
    { Obj(Fields("a", "b", x, y)) :
         x \in Values(MaxDepth) \cup {Undefined}, y \in {Undefined, Prim} }

RECURSIVE SeqsUpTo(_, _)
SeqsUpTo(S, n) ==
    IF n = 0 THEN {<<>>}
    ELSE SeqsUpTo(S, n - 1)
            \cup { Append(q, x) : q \in { r \in SeqsUpTo(S, n - 1) : Len(r) = n - 1 }, x \in S }

\* the locators: $.a followed by names and indexes, and one without "$."
Locators ==
    { [sigil |-> TRUE, parts |-> <<"a">> \o r] : r \in SeqsUpTo({"k", "0", "1"}, MaxPath - 1) }
        \cup { [sigil |-> FALSE, parts |-> <<"a">>] }

PathInit ==
    /\ InstallIdle
    /\ scaffold = Idle
    /\ manifestGen = Idle
    /\ docker = Idle
    /\ setter \in { [state |-> "ready", root |-> r, original |-> r, previous |-> r,
                     path |-> p, sets |-> 0, error |-> "none"] :
                       r \in Roots, p \in Locators }

\* one call setValueAtPath(root, path, value)
SetValue ==
    /\ setter.state = "ready"
    /\ setter.sets < MaxSets
    /\ LET r == SetValueAtPath(setter.root, setter.path, NewValue)
       IN setter' = [setter EXCEPT
                        !.root = IF r.t \in {"TypeError", "InvalidPath"} THEN @ ELSE r,
                        !.error = IF r.t \in {"TypeError", "InvalidPath"} THEN r.t ELSE @,
                        !.previous = setter.root,
                        !.sets = @ + 1]
    /\ UNCHANGED <<installVars, scaffold, manifestGen, docker>>

PathNext == SetValue

SpecPath == PathInit /\ [][PathNext]_vars

(* ---------------------------- docker setup ---------------------------- *)
\* the files of generateDockerEnv, in its order
DockerFiles == <<"docker-compose.yml", ".env", ".env.example">>

\* the built-in content written to a file
BuiltIn(name) ==
    CASE name = "docker-compose.yml" -> "DOCKER_COMPOSE_CONTENT"
      [] name = ".env" -> "ENV_CONTENT"
      [] name = ".env.example" -> "ENV_EXAMPLE_CONTENT"

\* fileExists(filePath)
FileExists(disk, name) == disk[name] # "absent"

\* a loop that skips nothing
Skips_Never(exists, force) == FALSE

\* if (exists && !force): the file is skipped
Skips(exists, force) == exists /\ ~force

\* the output directory before the command: each file is absent, has content
\* of the user's, or has the built-in content; writing the file failAt throws
DockerInit ==
    /\ InstallIdle
    /\ setter = Idle
    /\ scaffold = Idle
    /\ manifestGen = Idle
    /\ docker \in { [state |-> "loop", force |-> f, before |-> d, disk |-> d, i |-> 1,
                     failAt |-> k, log |-> <<>>] :
                       f \in BOOLEAN, k \in 0..Len(DockerFiles),
                       d \in { [n \in Range(DockerFiles) |-> IF n \in u THEN "user"
                                                              ELSE IF n \in b THEN BuiltIn(n)
                                                              ELSE "absent"] :
                                   u \in SUBSET Range(DockerFiles),
                                   b \in SUBSET Range(DockerFiles) } }

DockerFile == DockerFiles[docker.i]

\* an existing file without --force: a warning, and the loop goes on
DockerSkip ==
    /\ docker.state = "loop" /\ docker.i <= Len(DockerFiles)
    /\ Skips(FileExists(docker.disk, DockerFile), docker.force)
    /\ docker' = [docker EXCEPT !.i = @ + 1,
                                !.log = Append(@, [level |-> "warn", file |-> DockerFile])]
    /\ UNCHANGED <<installVars, setter, scaffold, manifestGen>>

\* writeFileSync and the info line
DockerWrite ==
    /\ docker.state = "loop" /\ docker.i <= Len(DockerFiles)
    /\ ~Skips(FileExists(docker.disk, DockerFile), docker.force)
    /\ docker.failAt # docker.i
    /\ docker' = [docker EXCEPT !.i = @ + 1,
                                !.disk[DockerFile] = BuiltIn(DockerFile),
                                !.log = Append(@, [level |-> "info", file |-> DockerFile])]
    /\ UNCHANGED <<installVars, setter, scaffold, manifestGen>>

\* writeFileSync throws: the action logs the error and exits with 1
DockerWriteThrew ==
    /\ docker.state = "loop" /\ docker.i <= Len(DockerFiles)
    /\ ~Skips(FileExists(docker.disk, DockerFile), docker.force)
    /\ docker.failAt = docker.i
    /\ docker' = [docker EXCEPT !.state = "failed",
                                !.log = Append(@, [level |-> "error", file |-> DockerFile])]
    /\ UNCHANGED <<installVars, setter, scaffold, manifestGen>>

\* the loop ended: generateDockerEnv returns
DockerReturn ==
    /\ docker.state = "loop" /\ docker.i > Len(DockerFiles)
    /\ docker' = [docker EXCEPT !.state = "done"]
    /\ UNCHANGED <<installVars, setter, scaffold, manifestGen>>

DockerNext == DockerSkip \/ DockerWrite \/ DockerWriteThrew \/ DockerReturn

SpecDocker == DockerInit /\ [][DockerNext]_vars

(* -------------------------- generate manifest ------------------------- *)
\* the directory names and targets given on the command line
ManifestNames == {BSH_ENTITIES, "Products", "Orders"}

\* an option that was not given; also the empty string, falsy as well
NotGiven == ""

\* an item of the --dependencies list: its text and whether blanks surround it
Item(text, padded) == [text |-> text, padded |-> padded]

\* dep.trim()
Trim(item) == [item EXCEPT !.padded = FALSE]

NonEmpty(item) == item.text # ""

\* options.dependencies.split(',').map(trim).filter(non-empty), the names
ParseDependencies(items) ==
    LET trimmed == [j \in DOMAIN items |-> Trim(items[j])]
        kept == SelectSeq(trimmed, NonEmpty)
    IN [j \in DOMAIN kept |-> kept[j].text]

\* the --dependencies values tried: none; one name; names with blanks, an
\* empty item and BshEntities
DependencyOptions ==
    { <<>>,
      <<Item("Products", FALSE)>>,
      <<Item("Orders", TRUE), Item("", TRUE), Item(BSH_ENTITIES, FALSE)>> }

\* no manifest file
NoManifest == [target |-> NotGiven, dependencies |-> <<>>]

\* manifestContent of generateManifestDirectory(name, targetOverride); a
\* third argument has no parameter and is not used
ManifestContent(name, targetOverride) ==
    [target |-> IF targetOverride # NotGiven THEN targetOverride ELSE name,
     dependencies |-> <<BSH_ENTITIES>>]

\* the plugin directory before the command, and the command line
ManifestInit ==
    /\ InstallIdle
    /\ setter = Idle
    /\ scaffold = Idle
    /\ docker = Idle
    /\ manifestGen \in
          { [state |-> "command", name |-> n, target |-> t, dependencies |-> d,
             additional |-> <<>>, isPluginDir |-> c, dirBefore |-> e,
             dir |-> IF e THEN "before" ELSE "absent", manifest |-> NoManifest,
             failAt |-> f, error |-> "none", exitCode |-> "none"] :
               n \in ManifestNames, t \in ManifestNames \cup {NotGiven},
               d \in DependencyOptions, c \in BOOLEAN, e \in BOOLEAN,
               f \in {"none", "mkdir", "writeFile"} }

\* the action of the manifest command up to its call of
\* generateManifestDirectory
ManifestCommand ==
    /\ manifestGen.state = "command"
    /\ manifestGen' = [manifestGen EXCEPT
                          !.state = "generate",
                          !.additional = ParseDependencies(manifestGen.dependencies)]
    /\ UNCHANGED <<installVars, setter, scaffold, docker>>

\* generateManifestDirectory throws before it creates anything
ManifestRefused ==
    /\ manifestGen.state = "generate"
    /\ ~(manifestGen.isPluginDir /\ manifestGen.dir = "absent")
    /\ manifestGen' = [manifestGen EXCEPT
                          !.state = "failed",
                          !.error = IF ~manifestGen.isPluginDir THEN "Invalid bsh plugin directory"
                                    ELSE "already exists",
                          !.exitCode = "1"]
    /\ UNCHANGED <<installVars, setter, scaffold, docker>>

\* the directory is made and the manifest written
ManifestWritten ==
    /\ manifestGen.state = "generate"
    /\ manifestGen.isPluginDir /\ manifestGen.dir = "absent"
    /\ manifestGen.failAt = "none"
    /\ manifestGen' = [manifestGen EXCEPT
                          !.state = "done",
                          !.dir = "created",
                          !.manifest = ManifestContent(manifestGen.name, manifestGen.target),
                          !.exitCode = "0"]
    /\ UNCHANGED <<installVars, setter, scaffold, docker>>

\* mkdir or writeFile throws: the directory is removed if there is one, and
\* the error thrown again
ManifestThrew ==
    /\ manifestGen.state = "generate"
    /\ manifestGen.isPluginDir /\ manifestGen.dir = "absent"
    /\ manifestGen.failAt # "none"
    /\ manifestGen' = [manifestGen EXCEPT
                          !.state = "failed",
                          !.dir = "absent",
                          !.error = manifestGen.failAt,
                          !.exitCode = "1"]
    /\ UNCHANGED <<installVars, setter, scaffold, docker>>

ManifestNext == ManifestCommand \/ ManifestRefused \/ ManifestWritten \/ ManifestThrew

SpecManifest == ManifestInit /\ [][ManifestNext]_vars

(* --------------------------- generatePlugin --------------------------- *)
\* the two generatePlugin of the repository
Implementations == {"api/generate/plugin.ts", "api/generate.ts"}

\* the template 'none' is known to api/generate/plugin.ts only
Minimal(s) == s.impl = "api/generate/plugin.ts" /\ s.template = "none"

\* a generatePlugin without its second check
PluginExists_Unchecked(s) == FALSE

\* directoryExists(finalPluginPath)
PluginExists(s) == s.dir # "absent"

\* a file system operation on the plugin directory or the clone, and whose
\* the directory was that it acted on
Op(name, s) ==
    [op |-> name, owner |-> IF s.dir = "before" THEN "before" ELSE "call"]

\* the file system before the command, the command line, and the operation
\* that fails
ScaffoldInit ==
    /\ InstallIdle
    /\ setter = Idle
    /\ manifestGen = Idle
    /\ docker = Idle
    /\ scaffold \in
          { [state |-> "check", impl |-> i, template |-> t, clean |-> c,
             targetExists |-> e, before |-> b,
             dir |-> IF b = "absent" THEN "absent" ELSE "before",
             modified |-> FALSE, temp |-> "absent", cleaned |-> FALSE,
             failAt |-> f, ops |-> <<>>, error |-> "none"] :
               i \in Implementations, t \in {"none", "url"}, c \in BOOLEAN,
               e \in BOOLEAN, b \in {"absent", "empty", "nonempty"},
               f \in {"none", "clone", "rename", "mkdir", "writeFile", "rm"} }

\* the two checks before anything is done
ScaffoldCheck ==
    /\ scaffold.state = "check"
    /\ scaffold' =
          IF ~scaffold.targetExists
          THEN [scaffold EXCEPT !.state = "failed", !.error = "Target directory does not exist"]
          ELSE IF PluginExists(scaffold)
          THEN [scaffold EXCEPT !.state = "failed", !.error = "Plugin already exists"]
          ELSE [scaffold EXCEPT !.state = "generate"]
    /\ UNCHANGED <<installVars, setter, manifestGen, docker>>

\* generateMinimalPlugin: mkdir (recursive), writeFile of bshplugin.json, and
\* promptForPluginInfo, which writes the file again and throws nothing
ScaffoldMinimal ==
    /\ scaffold.state = "generate"
    /\ Minimal(scaffold)
    /\ scaffold' =
          IF scaffold.failAt = "mkdir"
          THEN [scaffold EXCEPT !.state = "cleanup", !.error = "mkdir"]
          ELSE LET made == [scaffold EXCEPT
                               !.dir = IF @ = "absent" THEN "created" ELSE @,
                               !.ops = Append(@, Op("mkdir", scaffold))]
               IN IF scaffold.failAt = "writeFile"
                  THEN [made EXCEPT !.state = "cleanup", !.error = "writeFile"]
                  ELSE [made EXCEPT !.state = "done",
                                    !.modified = made.dir = "before",
                                    !.ops = Append(@, Op("writeFile", made))]
    /\ UNCHANGED <<installVars, setter, manifestGen, docker>>

\* git clone into the temporary directory, and the removal of .github and
\* .git in it
ScaffoldClone ==
    /\ scaffold.state = "generate"
    /\ ~Minimal(scaffold)
    /\ scaffold' =
          IF scaffold.failAt = "clone" \/ scaffold.template = "none"
          THEN [scaffold EXCEPT !.state = "cleanup", !.error = "Git is required"]
          ELSE [scaffold EXCEPT !.state = "move", !.temp = "cloned",
                                !.ops = Append(@, Op("clone", scaffold))]
    /\ UNCHANGED <<installVars, setter, manifestGen, docker>>

\* rename of the clone to the plugin path, which fails on a directory that
\* is not empty and replaces an empty one; promptForPluginInfo and
\* removeSampleFiles, which throw nothing; in api/generate/plugin.ts the
\* removal of README.md and .gitignore
ScaffoldMove ==
    /\ scaffold.state = "move"
    /\ scaffold' =
          IF scaffold.failAt = "rename"
                \/ (scaffold.dir = "before" /\ scaffold.before = "nonempty")
          THEN [scaffold EXCEPT !.state = "cleanup", !.error = "rename"]
          ELSE LET moved == [scaffold EXCEPT
                                !.dir = IF @ = "absent" THEN "created" ELSE @,
                                !.modified = scaffold.dir = "before",
                                !.temp = "absent",
                                !.cleaned = scaffold.clean,
                                !.ops = Append(@, Op("rename", scaffold))]
               IN IF scaffold.impl = "api/generate/plugin.ts" /\ scaffold.failAt = "rm"
                  THEN [moved EXCEPT !.state = "cleanup", !.error = "rm"]
                  ELSE [moved EXCEPT !.state = "done"]
    /\ UNCHANGED <<installVars, setter, manifestGen, docker>>

\* the catch: api/generate/plugin.ts removes the plugin directory if there
\* is one, api/generate.ts the temporary directory if there is one; the
\* error is thrown again
ScaffoldCleanup ==
    /\ scaffold.state = "cleanup"
    /\ scaffold' =
          IF scaffold.impl = "api/generate/plugin.ts"
          THEN IF PluginExists(scaffold)
               THEN [scaffold EXCEPT !.state = "failed", !.dir = "absent",
                                     !.ops = Append(@, Op("rm plugin", scaffold))]
               ELSE [scaffold EXCEPT !.state = "failed"]
          ELSE IF scaffold.temp # "absent"
               THEN [scaffold EXCEPT !.state = "failed", !.temp = "absent",
                                     !.ops = Append(@, Op("rm temp", scaffold))]
               ELSE [scaffold EXCEPT !.state = "failed"]
    /\ UNCHANGED <<installVars, setter, manifestGen, docker>>

ScaffoldNext ==
    ScaffoldCheck \/ ScaffoldMinimal \/ ScaffoldClone \/ ScaffoldMove \/ ScaffoldCleanup

SpecScaffold == ScaffoldInit /\ [][ScaffoldNext]_vars

(* ============================== claims ================================ *)
\* the node the claims call the base-entities node: its target is
\* BshEntities and it has at least one content file
BaseProvider ==
    IF base # NoNode /\ Len(content[base]) > 0 THEN base ELSE NoNode

CallsOf(n, f, i) ==
    { k \in DOMAIN calls : calls[k].node = n /\ calls[k].file = f /\ calls[k].idx = i }

Completed(k) == calls[k].state \in {"ok", "failed"}

AllFiles == { File(n, f) : <<n, f>> \in { <<n, f>> \in Nodes \X (1..MaxFiles) : f <= Len(content[n]) } }

\* C1: for an acyclic graph and any node N, a create call for a file of N is
\* issued only after every create call for the files of N's transitive
\* dependencies has completed: no call for a dependency follows a call for N,
\* and only the last call issued can be awaiting its answer.
C1_DependenciesFirst ==
    Acyclic(deps) =>
        /\ \A i, j \in DOMAIN calls :
              (i < j /\ calls[i].node \in Nodes /\ calls[j].node \in Nodes)
                  => calls[j].node \notin TransDeps(deps, calls[i].node)
        /\ \A i \in DOMAIN calls : i < Len(calls) => Completed(i)

\* C2: when a non-empty BshEntities node exists, every create call for its
\* files precedes every create call of any other node, and once the pass over
\* the contents has begun the node is marked installed and all its files have
\* been read.
C2_BaseEntitiesFirst ==
    BaseProvider # NoNode =>
        /\ \A i, j \in DOMAIN calls :
              (i < j /\ calls[j].node = BaseProvider) => calls[i].node = BaseProvider
        /\ mainIdx >= 1 =>
              /\ installed[BaseProvider]
              /\ \A f \in 1..Len(content[BaseProvider]) :
                    File(BaseProvider, f) \in Range(reads)

\* C2 witness: the BshEntities node is not the first of the contents, and the
\* run ended with calls for it and for other nodes
C2_Witness ==
    /\ BaseProvider > 1
    /\ pc = "done"
    /\ \E k \in DOMAIN calls : calls[k].node = BaseProvider
    /\ \E k \in DOMAIN calls : calls[k].node \in Nodes \ {BaseProvider}

MetaCalls == { k \in DOMAIN calls : calls[k].target = BSH_PLUGINS }

\* C3: the metadata record (the create call to BshPlugins) is issued once
\* every node is installed and every earlier create call has completed,
\* nothing is issued after it, and a run of install() that returns has issued
\* exactly one, also when content insertions failed.
C3_MetadataLast ==
    /\ \A k \in MetaCalls :
          /\ k = Len(calls)
          /\ \A j \in 1..(k - 1) : Completed(j)
          /\ \A n \in Nodes : installed[n]
    /\ pc = "done" => Cardinality(MetaCalls) = 1

\* C3 witness: install() returned in a run where a content insertion failed
C3_Witness ==
    /\ pc = "done"
    /\ \E k \in DOMAIN calls : calls[k].state = "failed" /\ calls[k].node \in Nodes
    /\ calls[Len(calls)].target = BSH_PLUGINS /\ calls[Len(calls)].state = "ok"

\* C4: when the create call for a content file failed (and no file failed to
\* read), the run ends with every content file read and the metadata record
\* submitted, whichever node the failing file belongs to.
C4_FailureDoesNotStopLaterFiles ==
    ( /\ pc \in {"done", "failed"}
      /\ error # ReadError
      /\ \E k \in DOMAIN calls : calls[k].state = "failed" /\ calls[k].node \in Nodes )
        => /\ AllFiles \subseteq Range(reads)
           /\ MetaCalls # {}

\* C5: a file that cannot be read or parsed never aborts the run.
C5_ReadFailureDoesNotAbort ==
    ~(pc = "failed" /\ error = ReadError)

IsCycleOf(d, c) ==
    /\ Len(c) >= 1
    /\ \A i \in DOMAIN c : \A j \in DOMAIN c : i # j => c[i] # c[j]
    /\ \A i \in DOMAIN c : c[IF i = Len(c) THEN 1 ELSE i + 1] \in d[c[i]]

\* C6: with a cycle in the dependency graph the run never gets to the
\* installation: no create call and no descriptor lookup is issued, and the
\* dependency check fails manage() with a DependencyError that names the
\* nodes of a cycle.
C6_CycleRejected ==
    ~Acyclic(deps) =>
        /\ calls = <<>>
        /\ lookups = 0
        /\ pc \in {"discover", "parse", "check", "failed"}
        /\ (pc = "failed" /\ Len(stages) = 3) =>
              /\ error.kind = "DependencyError"
              /\ IsCycleOf(deps, error.names)

\* C6 witness: a cycle through three nodes was reported
C6_Witness ==
    /\ pc = "failed"
    /\ error.kind = "DependencyError"
    /\ Len(error.names) = 3
    /\ IsCycleOf(deps, error.names)

EarlyErrors == {"DiscoveryError", "ParseError", "DependencyError", "ResolutionError"}

\* C7: a run that aborted with a DiscoveryError, ParseError, DependencyError
\* or ResolutionError has issued no create call.
C7_EarlyErrorsBeforeMutation ==
    (pc = "failed" /\ error.kind \in EarlyErrors) => calls = <<>>

\* C7 witness: the run aborted in the dependency check for a missing name
C7_Witness ==
    /\ pc = "failed"
    /\ error.kind = "DependencyError"
    /\ error.names = <<1, MissingName>>

StageNames == <<"discovery", "parsing", "dependency check", "installation">>

\* C8: the stages run in the order discovery, parsing, dependency check,
\* installation, each only after all earlier ones returned; a stage that
\* threw is the last one run and its error is what manage() throws.
C8_StagesInOrder ==
    /\ Len(stages) <= Len(StageNames)
    /\ \A i \in DOMAIN stages :
          /\ stages[i].name = StageNames[i]
          /\ i < Len(stages) => stages[i].result = "ok"
    /\ pc = "failed" <=> (stages # <<>> /\ stages[Len(stages)].result = "threw")
    /\ pc = "failed" <=> error # NoError
    /\ pc = "done" => (Len(stages) = 4 /\ stages[4].result = "ok")

\* C8 witness: the installation threw after the three stages before it returned
C8_Witness ==
    /\ pc = "failed"
    /\ Len(stages) = 4
    /\ stages[4].result = "threw"

ArrayFiles == { x \in AllFiles : content[x.node][x.file].kind = "arr" }

ElemsOf(x) == content[x.node][x.file].elems

\* C9: when install() has returned, every object element of every array
\* payload has had exactly one create call, whatever happened to the calls for
\* the elements before it.
C9_ElementsIndependent ==
    pc = "done" =>
        \A x \in ArrayFiles : \A i \in DOMAIN ElemsOf(x) :
            ElemsOf(x)[i] = "obj" => Cardinality(CallsOf(x.node, x.file, i)) = 1

SkipsOf(x, i) ==
    { k \in DOMAIN log : log[k] = LogEntry("warn", "not an object", x.node, x.file, i) }

\* C10: no create call is ever made for an array element that is not an
\* object and every skip warning is for such an element; when install() has
\* returned, in every array none of whose create calls failed each non-object
\* element has its one warning and no call, and each object element, before
\* or after it, has its one call.
C10_NonObjectsSkipped ==
    /\ \A k \in DOMAIN calls :
          calls[k].idx > 0 => content[calls[k].node][calls[k].file].elems[calls[k].idx] = "obj"
    /\ \A k \in DOMAIN log :
          log[k].what = "not an object" =>
              content[log[k].node][log[k].file].elems[log[k].idx] # "obj"
    /\ pc = "done" =>
          \A x \in ArrayFiles :
              (\A k \in DOMAIN calls :
                  (calls[k].node = x.node /\ calls[k].file = x.file) => calls[k].state = "ok")
              => \A i \in DOMAIN ElemsOf(x) :
                    IF ElemsOf(x)[i] = "obj"
                    THEN Cardinality(CallsOf(x.node, x.file, i)) = 1 /\ SkipsOf(x, i) = {}
                    ELSE CallsOf(x.node, x.file, i) = {} /\ Cardinality(SkipsOf(x, i)) = 1

\* C10 witness: an array with a non-object between two objects was installed
C10_Witness ==
    /\ pc = "done"
    /\ \E x \in ArrayFiles :
          /\ Len(ElemsOf(x)) = 3
          /\ ElemsOf(x)[1] = "obj" /\ ElemsOf(x)[2] # "obj" /\ ElemsOf(x)[3] = "obj"
          /\ SkipsOf(x, 2) # {}
          /\ \E k \in CallsOf(x.node, x.file, 1) : calls[k].state = "ok"
          /\ \E k \in CallsOf(x.node, x.file, 3) : calls[k].state = "ok"

\* whether the engine's descriptor of the entity a payload goes to marks it
\* plugin-scoped
DestinationScoped(t) ==
    IF t = BSH_ENTITIES THEN descriptor = "pluginBased" ELSE t \in pluginScoped

\* C11: a payload sent to a target other than BshPlugins carries bshPlugin
\* exactly when the descriptor of that target marks it plugin-scoped, and a
\* payload sent to BshPlugins never carries it.
C11_BackReferenceIffScoped ==
    \A k \in DOMAIN calls :
        IF calls[k].target = BSH_PLUGINS
        THEN ~calls[k].bshPlugin
        ELSE calls[k].bshPlugin <=> DestinationScoped(calls[k].target)

\* C12: the descriptor lookup is sent to the engine at most once in a run.
C12_LookupAtMostOnce == lookups <= 1

LookupThrew(n, f) ==
    \E j \in DOMAIN log : log[j] = LogEntry("error", "lookup", n, f, 0)

LookupMissed(n, f) == descriptor = "none" \/ LookupThrew(n, f)

\* the payload the lookup before a create call is for: a content file, or the
\* metadata record
PayloadOf(n, f) == IF n = NoNode THEN ObjectPayload ELSE content[n][f]

MarksOf(n) == Cardinality({ i \in DOMAIN marks : marks[i] = n })

\* C14: the installed flag of a node is assigned true at most once, it is
\* true exactly when it has been assigned, and no step sets it back to false.
C14_InstalledOneWay ==
    /\ [](\A n \in Nodes : MarksOf(n) <= 1 /\ (installed[n] <=> MarksOf(n) = 1))
    /\ [][\A n \in Nodes : installed[n] => installed'[n]]_vars

\* C14 witness: the run returned for a plugin whose BshEntities node, installed
\* by the base phase, is met again as a dependency and in the pass over the
\* contents
C14_Witness ==
    /\ pc = "done"
    /\ BaseProvider # NoNode
    /\ \E n \in Nodes : BaseProvider \in deps[n]
    /\ \A n \in Nodes : installed[n] /\ MarksOf(n) = 1

\* the BshEntities node has no content files
EmptyBase == base # NoNode /\ IsEmpty(base)

\* C15: a BshEntities node without content files is not taken by the base
\* phase: that phase never runs for it, no create call is made for it, it is
\* not installed when the pass over the contents begins, it is marked
\* installed in that pass after each of its dependencies, and a run that
\* returned has it installed.
C15_EmptyBaseIsOrdinary ==
    EmptyBase =>
        /\ ctx # "base"
        /\ \A k \in DOMAIN calls : calls[k].node # base
        /\ (pc = "main_loop" /\ mainIdx = 1) => ~installed[base]
        /\ installed[base] =>
              /\ mainIdx >= 1
              /\ \A d \in deps[base] \cap Nodes :
                    installed[d] /\ IndexOf(marks, d) < IndexOf(marks, base)
        /\ pc = "done" => installed[base]

\* C15 witness: the run returned for a plugin whose empty BshEntities node
\* has a dependency
C15_Witness ==
    /\ EmptyBase
    /\ pc = "done"
    /\ deps[base] # {}
    /\ installed[base]

\* C16: no payload object (the object of a file, one element of an array, the
\* metadata record) has more than one create call in a run, whether the call
\* succeeded or failed.
C16_NoRetries ==
    \A i, j \in DOMAIN calls :
        ( /\ calls[i].node = calls[j].node
          /\ calls[i].file = calls[j].file
          /\ calls[i].idx = calls[j].idx ) => i = j

\* C16 witness: the run returned after the create call failed for a file of a
\* node that another node depends on
C16_Witness ==
    /\ pc = "done"
    /\ \E k \in DOMAIN calls :
          /\ calls[k].state = "failed"
          /\ \E m \in Nodes : calls[k].node \in deps[m]
          /\ Cardinality(CallsOf(calls[k].node, calls[k].file, calls[k].idx)) = 1

Pending == { k \in DOMAIN calls : calls[k].state = "pending" }

\* C17: at most one remote call awaits its answer at any time: a pending
\* create call is the last one issued and the only one, no create call is
\* pending while a lookup is, and the installer has a call in flight exactly
\* while it waits for one.
C17_OneCallInFlight ==
    /\ Cardinality(Pending) + (IF inflight = "lookup" THEN 1 ELSE 0) <= 1
    /\ \A k \in Pending : k = Len(calls) /\ inflight = "create" /\ pc = "create_wait"
    /\ inflight = "create" <=> Pending # {}
    /\ inflight = "lookup" <=> pc = "lookup_wait"

\* C17 witness: the create call for the third element of an array is in
\* flight after the calls for the first two were answered
C17_Witness ==
    /\ pc = "create_wait"
    /\ json.kind = "arr"
    /\ elemIdx = 3
    /\ Pending = {Len(calls)}
    /\ Len(calls) >= 3
    /\ Completed(Len(calls) - 1) /\ Completed(Len(calls) - 2)

\* the placeholders of the files of n that neither the plugin-level nor the
\* manifest-level variables know
Unknown(n) == placeholders[n] \ (configVars \cup manifestVars[n])

\* C18: every payload sent for a content file still has exactly the
\* placeholders no variable matches, a file is only ever reported unreadable
\* when the environment failed to read or parse it, and a run that returned
\* has sent every object file with its unknown placeholders in place.
C18_NonStrictResolution ==
    /\ \A k \in DOMAIN calls :
          calls[k].node \in Nodes => calls[k].left = Unknown(calls[k].node)
    /\ (pc = "failed" /\ error = ReadError) => faults < MaxFaults
    /\ pc = "done" =>
          \A x \in AllFiles :
              content[x.node][x.file].kind = "obj" =>
                  \E k \in CallsOf(x.node, x.file, 0) : calls[k].left = Unknown(x.node)

\* C18 witness: the run returned after a file with one placeholder that a
\* variable matches and one that none matches was created
C18_Witness ==
    /\ pc = "done"
    /\ \E k \in DOMAIN calls :
          /\ calls[k].node \in Nodes
          /\ calls[k].state = "ok"
          /\ calls[k].left # {}
          /\ calls[k].left # placeholders[calls[k].node]

\* an Error of a connection that was refused or a fetch that failed
Unreachable(e) ==
    e.isError /\ (e.code = "ECONNREFUSED" \/ e.text \in {"ECONNREFUSED", "fetch failed"})

ServerUnreachableMessages ==
    { "Connection refused to address:port. Please ensure the server is running",
      "Connection failed. Please ensure the server is running. Original error" }

\* C19: when create calls fail because the engine is unreachable, the message
\* logged and thrown for a failed call is one of the rewritten
\* server-unreachable messages, and the run goes on: it ends with every
\* content file read and the metadata record submitted, whichever node or
\* phase the failed call belongs to.
C19_UnreachableRewrittenAndTolerated ==
    Unreachable(outage) =>
        /\ \A k \in DOMAIN calls :
              calls[k].state = "failed" => calls[k].reason \in ServerUnreachableMessages
        /\ ( /\ pc \in {"done", "failed"}
             /\ error # ReadError
             /\ \E k \in DOMAIN calls : calls[k].state = "failed" )
               => /\ AllFiles \subseteq Range(reads)
                  /\ MetaCalls # {}

Succeeded == { k \in DOMAIN calls : calls[k].state = "ok" }

\* C20: when install() has returned from a run in which a create call failed,
\* the log ends with a report that follows every failure entry and gives the
\* number of create calls that succeeded.
C20_FinalReport ==
    (pc = "done" /\ \E k \in DOMAIN calls : calls[k].state = "failed") =>
        \E j \in DOMAIN log :
            /\ log[j].what = "summary"
            /\ log[j].idx = Cardinality(Succeeded)
            /\ \A i \in DOMAIN log : log[i].what \in {"create", "insert"} => i < j

\* C21: the process exits with code 0 exactly when manage() completed without
\* throwing, and with another code when a stage threw or manage() was never
\* called.
C21_ExitCodeReflectsOutcome ==
    exitCode # "none" => (exitCode = "0" <=> pc = "done")

(* --------------------------- setValueAtPath --------------------------- *)
\* the value at the position the segments lead to, undefined when there is none
RECURSIVE At(_, _)
At(x, parts) ==
    IF parts = <<>> THEN x
    ELSE IF x.t \in {"object", "array"} THEN At(Get(x, parts[1]), Tail(parts))
    ELSE Undefined

Prefix(parts, i) == SubSeq(parts, 1, i)

\* the shape the locator requires at its position i, an intermediate one
Required(parts, i) == IF IsNumeric(parts[i + 1]) THEN "array" ELSE "object"

\* one call was made with a well-formed locator
SetOnce == setter.sets = 1 /\ setter.path.sigil

\* C22: the locator $.a[0].k set on {} gives {"a":[{"k":v}]}, and in any
\* successful call an intermediate position that had no value has an array
\* when the next segment is numeric, with null in the slots below that index,
\* and an object otherwise.
C22_CreatesIntermediates ==
    (SetOnce /\ setter.error = "none") =>
        LET parts == setter.path.parts
        IN /\ (setter.original = Obj(<<>>) /\ parts = <<"a", "0", "k">>)
                => setter.root
                     = Obj([q \in {"a"} |-> Arr(<<Obj([r \in {"k"} |-> NewValue])>>, <<>>)])
           /\ \A i \in 1..(Len(parts) - 1) :
                 At(setter.original, Prefix(parts, i)).t = "undefined" =>
                    LET made == At(setter.root, Prefix(parts, i))
                    IN /\ made.t = Required(parts, i)
                       /\ made.t = "array" =>
                             \A j \in 1..ParseInt(parts[i + 1]) : made.e[j].t = "null"

\* a container with nothing in it but what the segment seg leads to
Fresh(x, seg) ==
    CASE x.t = "object" -> DOMAIN x.f = {seg}
      [] x.t = "array" ->
            /\ DOMAIN x.p = {}
            /\ Len(x.e) = ParseInt(seg) + 1
            /\ \A j \in 1..ParseInt(seg) : x.e[j].t = "null"
      [] OTHER -> FALSE

\* C23: a call never fails for the shape of what it finds, and an existing
\* intermediate value of another shape than the locator requires (an array
\* or a primitive for an object, an object or a primitive for an array) is
\* replaced by a fresh container of the required shape that holds only the
\* new path.
C23_ConflictsReplaced ==
    SetOnce =>
        LET parts == setter.path.parts
        IN /\ setter.error = "none"
           /\ \A i \in 1..(Len(parts) - 1) :
                 LET old == At(setter.original, Prefix(parts, i))
                     new == At(setter.root, Prefix(parts, i))
                 IN (old.t \in {"object", "array", "number"} /\ old.t # Required(parts, i))
                       => new.t = Required(parts, i) /\ Fresh(new, parts[i + 1])

\* C24: after a successful call with a locator whose last segment is numeric
\* the value is the element with that index of the array the segments before
\* lead to; on {} the locator $.a[0] gives {"a":[v]}.
C24_FinalIndexIsElement ==
    (SetOnce /\ setter.error = "none"
        /\ IsNumeric(setter.path.parts[Len(setter.path.parts)])) =>
        LET parts == setter.path.parts
            parent == At(setter.root, Prefix(parts, Len(parts) - 1))
        IN /\ parent.t = "array"
           /\ At(setter.root, parts) = NewValue
           /\ (setter.original = Obj(<<>>) /\ parts = <<"a", "0">>)
                => setter.root = Obj([q \in {"a"} |-> Arr(<<NewValue>>, <<>>)])

\* the property names and the indexes a container has
Members(x) ==
    CASE x.t = "object" -> DOMAIN x.f
      [] x.t = "array" -> { Digits[j] : j \in 1..Len(x.e) } \cup DOMAIN x.p
      [] OTHER -> {}

\* every intermediate position of the locator has the shape it requires
ShapesFit(x, parts) ==
    \A i \in 1..(Len(parts) - 1) : At(x, Prefix(parts, i)).t = Required(parts, i)

\* the container new is the container old but for what the segment seg leads
\* to; the slots an array gets below the index seg hold null
SameBut(old, new, seg) ==
    /\ new.t = old.t
    /\ \A q \in (Members(old) \cup Members(new)) \ {seg} :
          \/ Get(new, q) = Get(old, q)
          \/ /\ old.t = "array" /\ IsNumeric(q) /\ IsNumeric(seg)
             /\ ParseInt(q) < ParseInt(seg)
             /\ Get(old, q).t = "undefined" /\ Get(new, q).t = "null"

\* C27: when every intermediate value has the shape the locator requires, a
\* set leaves every other key of the root and of each intermediate object and
\* every other element of each intermediate array as it was ($.a[0].k keeps
\* a[0].s), and a second set of the same locator changes nothing more.
C27_FrameAndIdempotence ==
    (setter.state = "ready" /\ setter.sets >= 1 /\ setter.path.sigil
        /\ ShapesFit(setter.original, setter.path.parts)) =>
        LET parts == setter.path.parts
        IN /\ \A i \in 0..(Len(parts) - 1) :
                 SameBut(At(setter.original, Prefix(parts, i)),
                         At(setter.root, Prefix(parts, i)), parts[i + 1])
           /\ setter.sets >= 2 => setter.root = setter.previous

\* C27 witness: $.a[0].k was set twice on {"a":[{"k":1,"s":1}]}; the element
\* has the new k and its old s
C27_Witness ==
    /\ setter.state = "ready" /\ setter.sets = 2 /\ setter.error = "none"
    /\ setter.path = [sigil |-> TRUE, parts |-> <<"a", "0", "k">>]
    /\ setter.original
         = Obj([q \in {"a"} |-> Arr(<<Obj([r \in {"k", "s"} |-> Prim])>>, <<>>)])
    /\ setter.root
         = Obj([q \in {"a"} |->
                 Arr(<<Obj([r \in {"k", "s"} |-> IF r = "k" THEN NewValue ELSE Prim])>>, <<>>)])

(* ----------------------------- readJson ------------------------------- *)
\* C26: in every payload sent for a content file a placeholder defined at the
\* plugin level carries the plugin-level value, also when the manifest
\* defines it too, and a placeholder carries the manifest-level value exactly
\* when the plugin level does not define it and the manifest does.
C26_PluginLevelFirst ==
    \A i \in DOMAIN calls :
        calls[i].node \in Nodes =>
            /\ DOMAIN calls[i].from = placeholders[calls[i].node]
            /\ \A k \in placeholders[calls[i].node] :
                  /\ k \in configVars => calls[i].from[k] = "plugin"
                  /\ calls[i].from[k] = "manifest"
                        <=> (k \notin configVars /\ k \in manifestVars[calls[i].node])

\* C26 witness: a file was created whose placeholder a is defined at both
\* levels and whose placeholder b only the manifest defines
C26_Witness ==
    \E i \in DOMAIN calls :
        /\ calls[i].node \in Nodes
        /\ calls[i].state = "ok"
        /\ {"a", "b"} \subseteq placeholders[calls[i].node]
        /\ "a" \in configVars \cap manifestVars[calls[i].node]
        /\ "b" \in manifestVars[calls[i].node] \ configVars
        /\ calls[i].from["a"] = "plugin"
        /\ calls[i].from["b"] = "manifest"

(* ------------------------------ install ------------------------------- *)
\* how many times the file x was read
TimesRead(x) == Cardinality({ j \in DOMAIN reads : reads[j] = x })

\* install() returned or threw
Ended == pc \in {"done", "failed"}

\* after a normal return every node is installed and every file was read once
\* and submitted once: an object file in one create call, an array file in at
\* most one create call for each of its elements
ReturnedComplete ==
    (pc = "done" /\ Acyclic(deps)) =>
        /\ \A n \in Nodes : installed[n]
        /\ \A x \in AllFiles : TimesRead(x) = 1
        /\ Len(reads) = Cardinality(AllFiles)
        /\ \A x \in AllFiles :
              /\ content[x.node][x.file].kind = "obj"
                    => Cardinality(CallsOf(x.node, x.file, 0)) = 1
              /\ \A i \in 0..MaxElems : Cardinality(CallsOf(x.node, x.file, i)) <= 1

\* C25: for an acyclic dependency graph and create calls that all return,
\* install() ends, and when it returned normally every node is installed and
\* every content file of every node, the BshEntities node included, was read
\* and submitted exactly once.
C25_TerminatesComplete ==
    /\ [](ReturnedComplete)
    /\ (optionsOk /\ Acyclic(deps)) ~> Ended

\* C25 witness: a run over a chain of dependencies with a BshEntities node in
\* it returned normally
C25_Witness ==
    /\ pc = "done"
    /\ deps = ChainDeps
    /\ base \in Nodes
    /\ Len(content[base]) > 0
    /\ \A n \in Nodes : installed[n]
    /\ \A x \in AllFiles : TimesRead(x) = 1

(* ---------------------------- docker setup ---------------------------- *)
Logged(level, name) ==
    \E j \in DOMAIN docker.log : docker.log[j] = [level |-> level, file |-> name]

\* the loop is past the file
Passed(name) == docker.state \in {"loop", "done"} /\ docker.i > IndexOf(DockerFiles, name)

\* C30: without --force a file that existed keeps its content whatever
\* happens, and is skipped with a warning and not reported created; when the
\* command returns, every file that was missing has the built-in content and
\* was reported created; with --force all three have the built-in content
\* when the command returns.
C30_ForceOnlyOverwrites ==
    docker.state # "idle" =>
        \A n \in Range(DockerFiles) :
            /\ (~docker.force /\ docker.before[n] # "absent") =>
                  /\ docker.disk[n] = docker.before[n]
                  /\ ~Logged("info", n)
                  /\ Passed(n) => Logged("warn", n)
            /\ (docker.state = "done" /\ (docker.force \/ docker.before[n] = "absent")) =>
                  /\ docker.disk[n] = BuiltIn(n)
                  /\ Logged("info", n)

\* C30 witness: without --force the command returned; docker-compose.yml was
\* the user's and is, .env was missing and has the built-in content
C30_Witness ==
    /\ docker.state = "done"
    /\ ~docker.force
    /\ docker.before["docker-compose.yml"] = "user"
    /\ docker.disk["docker-compose.yml"] = "user"
    /\ docker.before[".env"] = "absent"
    /\ docker.disk[".env"] = "ENV_CONTENT"
    /\ docker.before[".env.example"] = "absent"
    /\ docker.disk[".env.example"] = "ENV_EXAMPLE_CONTENT"

(* -------------------------- generate manifest ------------------------- *)
\* C29: a manifest that generateManifestDirectory wrote does not have its own
\* target among its dependencies, whatever the directory name and the target
\* option are.
C29_NoSelfDependency ==
    manifestGen.state = "done" =>
        manifestGen.manifest.target \notin Range(manifestGen.manifest.dependencies)

(* --------------------------- generatePlugin --------------------------- *)
\* C28: a plugin directory that existed before the call is as it was,
\* whatever the call did; a call for a plugin directory that exists or a
\* target directory that does not fails without an operation on the file
\* system; and whenever the plugin directory is removed it is one this call
\* created.
C28_ExistingPluginUntouched ==
    scaffold.state \notin {"idle", "check"} =>
        /\ scaffold.before # "absent" =>
              scaffold.dir = "before" /\ ~scaffold.modified
        /\ (scaffold.before # "absent" \/ ~scaffold.targetExists) =>
              /\ scaffold.state = "failed"
              /\ scaffold.ops = <<>>
              /\ scaffold.error \in {"Plugin already exists", "Target directory does not exist"}
        /\ \A j \in DOMAIN scaffold.ops :
              scaffold.ops[j].op = "rm plugin" => scaffold.ops[j].owner = "call"

\* C28 witness: the call for a plugin directory with files in it, in a target
\* directory that exists, failed and did nothing
C28_Witness ==
    /\ scaffold.state = "failed"
    /\ scaffold.targetExists
    /\ scaffold.before = "nonempty"
    /\ scaffold.dir = "before"
    /\ scaffold.error = "Plugin already exists"
    /\ scaffold.ops = <<>>

====
